---- MODULE Spec2Model ----
(***************************************************************************)
(* State-machine model of kmol/model/executors.py: the executor hierarchy  *)
(* (AbstractExecutor, Trainer, Predictor, Pipeliner, LearningRareFinder).  *)
(*                                                                         *)
(* Tensors, optimizer state and scheduler state are abstracted to integer  *)
(* version numbers: a freshly built object is 0, every optimizer step and  *)
(* scheduler step adds one, a load_state_dict copies the number stored in  *)
(* the checkpoint file.                                                    *)
(***************************************************************************)
EXTENDS Integers, Sequences, FiniteSets, TLC

(***************************************************************************)
(* Bounds of the model.                                                    *)
(***************************************************************************)
MaxEpochs == 3      \* largest config.epochs and largest epoch in a checkpoint
MaxMetric == 2      \* validation target metric ranges over 0..MaxMetric
MaxBatches == 2     \* batches in the training loader: 1..MaxBatches
MaxRuns == 2        \* Trainer objects built one after the other

(***************************************************************************)
(* Values of the program.                                                  *)
(***************************************************************************)
NoneVal == -1           \* Python None (an optimizer/scheduler never built)
NegInf == -1            \* -np.inf, below every metric value
NoMetrics == -2         \* the empty Namespace() returned without val loader
FreshNetwork == 0       \* weights right after SuperFactory.create
FreshOptimizer == 0     \* optimizer right after SuperFactory.create
FreshScheduler == 0     \* scheduler right after _initialize_scheduler
BestSuffix == 0         \* file suffix "best"; epoch suffixes are 1, 2, ...

AllKeys == {"epoch", "optimizer", "scheduler"}

NoFile == [exists |-> FALSE, keys |-> {}, epoch |-> 0, model |-> 0,
           optimizer |-> 0, scheduler |-> 0]

VARIABLES
    \* ---- configuration and inputs of a Trainer / Predictor
    kind,            \* class of the executor: "Trainer", "Predictor", ...
    config,          \* [epochs, is_finetuning, overwrite_checkpoint,
                     \*  is_stepwise_scheduler]
    ckpt,            \* the file at config.checkpoint_path (NoFile: absent)
    hasVal,          \* val_loader is not None
    nBatches,        \* len(data_loader.dataset)
    \* ---- AbstractExecutor fields
    network,         \* network weights
    netMode,         \* "train" / "eval" / "init"
    optimizer,
    scheduler,
    start_epoch,     \* self._start_epoch
    anchor_params,   \* Trainer.anchor_params (NoneVal: attribute not set)
    \* ---- Trainer.run locals
    pc,
    epoch,
    best_metric,
    new_best,
    val_metrics,
    trackers,        \* updates of the loss/metric trackers since last reset
    \* ---- output directory
    files,           \* suffix -> checkpoint file
    logs,            \* lines of logs.txt
    \* ---- history of the current run
    load_outcome,    \* how the last _load_checkpoint call ended
    events,          \* names of the dispatched events, in order
    executed,        \* epochs whose _train_epoch ran, in order
    saves,           \* [epoch, metric] of each Trainer.save call, in order
    seen,            \* target metric of each validation, in order
    logs_at_start,   \* Len(logs) when the run started
    held,            \* suffix -> executor state held when the file was saved
    origin,          \* held state of the file ckpt was copied from
    runs,            \* number of executors built so far
    \* ---- LearningRareFinder.run
    iteration,       \* iterations of the search loop executed so far
    it_pos,          \* batches self._iterator has yielded since its restart
    history_len,     \* len(self.history["loss"]) = len(self.history["lr"])
    history_last,    \* self.history["loss"][-1]
    best_loss,       \* self.best_loss
    diverged_at,     \* first iteration whose smoothed loss was above
                     \* DIVERGENCE_THRESHOLD * best_loss (NoneVal: none yet)
    \* ---- AbstractExecutor._to_device
    device,          \* self._device
    batch,           \* the batch handed to _to_device
    batch_in,        \* the batch as it was before the call
    dev_pc,          \* "ready" / "returned" / "raised"
    \* ---- Pipeliner.find_all_checkpoints
    out_files,       \* the *.pt paths below config.output_path
    found,           \* the result of each find_all_checkpoints call, in order
    \* ---- observers and what the last handlers did
    observers,       \* events with a registered handler that rewrites the
                     \* payload fields the code reads back
    steps,           \* operations of the last _train_epoch / Predictor.run
    last_step,       \* what the criterion and the trackers of the last
                     \* training step were given
    sink,            \* messages Trainer.log sent to logging.info, in order
    \* ---- Predictor.run
    pconf,           \* [probe_layer, ensemble, parallel, mc_dropout]: what
                     \* Predictor.run and _setup_network read of the config
    net_class,       \* class of self.network
    probe,           \* self.probe: "none" or "hook"
    \* ---- Pipeliner.evaluate_all / find_best_checkpoint
    metrics,         \* path -> target-metric values (one per target) that
                     \* an Evaluator computes from that checkpoint file
    results,         \* what the last evaluate_all returned, each result
                     \* with the path it was computed from
    checkpoint_path, \* the Pipeliner's config.checkpoint_path
    predictor_path   \* the checkpoint path the Pipeliner's predictor was
                     \* created with

trainerVars == <<kind, config, ckpt, hasVal, nBatches, network, netMode,
                 optimizer, scheduler, start_epoch, anchor_params, pc, epoch,
                 best_metric, new_best, val_metrics, trackers, files, logs,
                 load_outcome, events, executed, saves, seen, logs_at_start,
                 held, origin, runs>>

lrVars == <<iteration, it_pos, history_len, history_last, best_loss,
           diverged_at>>

devVars == <<device, batch, batch_in, dev_pc>>

pipeVars == <<out_files, found>>

stepVars == <<observers, steps, last_step, sink>>

predVars == <<pconf, net_class, probe>>

selVars == <<metrics, results, checkpoint_path, predictor_path>>

vars == <<trainerVars, lrVars, devVars, pipeVars, stepVars, predVars, selVars>>

NoHeld == [valid |-> FALSE, epoch |-> 0, model |-> 0, optimizer |-> 0,
           scheduler |-> 0]

(***************************************************************************)
(* Checkpoint files a run can be started from: any subset of the three     *)
(* optional keys, any epoch.                                               *)
(***************************************************************************)
InitialFiles ==
    {NoFile} \cup
    {[exists |-> TRUE, keys |-> ks, epoch |-> e, model |-> 10 + e,
      optimizer |-> 20 + e, scheduler |-> 30 + e] :
        ks \in SUBSET AllKeys, e \in 1..MaxEpochs}

(***************************************************************************)
(* AbstractExecutor._load_checkpoint                                       *)
(***************************************************************************)
\* network.load_checkpoint raises CheckpointNotFound when there is no file
NetworkLoadRaises(f) == ~f.exists

\* network.load_checkpoint restores the weights from the file
NetworkLoad(f) == f.model

\* variant: fine-tuning mode is not looked at
ShouldRestoreWhenTraining(train) == train

\* line 83: if not self.config.is_finetuning and train
ShouldRestore(train) == ~config.is_finetuning /\ train

\* line 86: if self.optimizer and "optimizer" in info
TakesOptimizer(train, f, opt) ==
    ShouldRestore(train) /\ opt # NoneVal /\ "optimizer" \in f.keys

\* line 89: if self.scheduler and "scheduler" in info
TakesScheduler(train, f, sch) ==
    ShouldRestore(train) /\ sch # NoneVal /\ "scheduler" \in f.keys

\* variant: the epoch is taken whenever train is set
TakesEpochWhenTraining(train, f) == train /\ "epoch" \in f.keys

\* line 92: if "epoch" in info
TakesEpoch(train, f) == ShouldRestore(train) /\ "epoch" \in f.keys

\* The calls of _load_checkpoint that can raise, besides CheckpointNotFound:
\* fault names the load_state_dict call that rejects the stored state.
Faults == {"none", "optimizer", "scheduler"}

LoadCheckpoint(train, fault, f, net, opt, sch, se) ==
    IF NetworkLoadRaises(f)
    THEN [raised |-> "CheckpointNotFound", network |-> net, optimizer |-> opt,
          scheduler |-> sch, start_epoch |-> se,
          events |-> <<"before_checkpoint_load">>]
    ELSE IF TakesOptimizer(train, f, opt) /\ fault = "optimizer"
    THEN [raised |-> "Error", network |-> NetworkLoad(f), optimizer |-> opt,
          scheduler |-> sch, start_epoch |-> se,
          events |-> <<"before_checkpoint_load">>]
    ELSE LET opt2 == IF TakesOptimizer(train, f, opt) THEN f.optimizer ELSE opt
         IN  IF TakesScheduler(train, f, sch) /\ fault = "scheduler"
             THEN [raised |-> "Error", network |-> NetworkLoad(f),
                   optimizer |-> opt2, scheduler |-> sch, start_epoch |-> se,
                   events |-> <<"before_checkpoint_load">>]
             ELSE [raised |-> "none", network |-> NetworkLoad(f),
                   optimizer |-> opt2,
                   scheduler |-> IF TakesScheduler(train, f, sch)
                                 THEN f.scheduler ELSE sch,
                   start_epoch |-> IF TakesEpoch(train, f)
                                   THEN f.epoch ELSE se,
                   events |-> <<"before_checkpoint_load",
                                "after_checkpoint_load">>]

LoadOutcome(r) == IF r.raised = "none" THEN "returned" ELSE r.raised

(***************************************************************************)
(* Parts of the state a specification does not use stay at these values.   *)
(***************************************************************************)
EmptyBatch == [outputs |-> [kind |-> "tensor", dev |-> "cpu", items |-> <<>>],
               inputs |-> <<>>]

IdleFinder ==
    /\ iteration = 0
    /\ it_pos = 0
    /\ history_len = 0
    /\ history_last = 0
    /\ best_loss = NoneVal
    /\ diverged_at = NoneVal

IdleDevice ==
    /\ device = "cpu"
    /\ batch = EmptyBatch
    /\ batch_in = EmptyBatch
    /\ dev_pc = "idle"

IdlePipeliner ==
    /\ out_files = {}
    /\ found = <<>>

NoStep == [loss_logits |-> "none", loss_extras |-> "none",
           tracked_outputs |-> "none"]

IdleSteps ==
    /\ steps = <<>>
    /\ last_step = NoStep
    /\ sink = <<>>

\* no handler registered that rewrites a payload
NoObservers == observers = {}

PlainConfig == [probe_layer |-> FALSE, ensemble |-> FALSE, parallel |-> FALSE,
                mc_dropout |-> FALSE]

IdlePredictor ==
    /\ pconf = PlainConfig
    /\ net_class = "Network"
    /\ probe = "none"

IdleSelect ==
    /\ metrics = <<>>
    /\ results = <<>>
    /\ checkpoint_path = "none"
    /\ predictor_path = "none"

(***************************************************************************)
(* State of an executor that has just been constructed                     *)
(* (AbstractExecutor.__init__), nothing has been written yet.              *)
(***************************************************************************)
Configs == [epochs : 0..MaxEpochs, is_finetuning : BOOLEAN,
            overwrite_checkpoint : BOOLEAN, is_stepwise_scheduler : BOOLEAN]

InitTrainer ==
    /\ config \in Configs
    /\ ckpt \in InitialFiles
    /\ hasVal \in BOOLEAN
    /\ nBatches \in 1..MaxBatches
    /\ network = FreshNetwork
    /\ netMode = "init"
    /\ optimizer = NoneVal
    /\ scheduler = NoneVal
    /\ start_epoch = 0
    /\ anchor_params = NoneVal
    /\ pc = "constructed"
    /\ epoch = 0
    /\ best_metric = NegInf
    /\ new_best = FALSE
    /\ val_metrics = NoMetrics
    /\ trackers = 0
    /\ files = [s \in 0..MaxEpochs |-> NoFile]
    /\ logs = <<>>
    /\ load_outcome = "not_called"
    /\ events = <<>>
    /\ executed = <<>>
    /\ saves = <<>>
    /\ seen = <<>>
    /\ logs_at_start = 0
    /\ held = [s \in 0..MaxEpochs |-> NoHeld]
    /\ origin = NoHeld
    /\ runs = 1

(***************************************************************************)
(* Trainer._setup                                                          *)
(***************************************************************************)
\* variant: no except clause
SetupCatchesNothing(raised) == FALSE

\* line 136: except CheckpointNotFound: pass
SetupCatches(raised) == raised = "CheckpointNotFound"

Setup ==
    /\ kind \in {"Trainer", "LearningRareFinder"}
    /\ pc = "constructed"
    /\ \E fault \in Faults :
        LET r == LoadCheckpoint(TRUE, fault, ckpt, network, FreshOptimizer,
                                FreshScheduler, start_epoch)
            failed == r.raised # "none" /\ ~SetupCatches(r.raised)
        IN  /\ network' = r.network
            /\ optimizer' = r.optimizer
            /\ scheduler' = r.scheduler
            /\ start_epoch' = r.start_epoch
            /\ anchor_params' = IF r.raised = "none" THEN r.network
                                ELSE anchor_params
            /\ load_outcome' = LoadOutcome(r)
            /\ events' = events \o r.events
            /\ netMode' = IF failed THEN netMode ELSE "train"
            /\ pc' = IF failed THEN "failed" ELSE "setup_done"
    /\ logs_at_start' = Len(logs)
    /\ UNCHANGED <<kind, config, ckpt, hasVal, nBatches, epoch, best_metric,
                   new_best, val_metrics, trackers, files, logs, executed,
                   saves, seen, held, origin, runs>>
    /\ UNCHANGED <<lrVars, devVars, pipeVars, stepVars, predVars,
                   selVars>>

(***************************************************************************)
(* Predictor.__init__: loads with train = False, then network.eval()       *)
(***************************************************************************)
PredictorInit ==
    /\ kind = "Predictor"
    /\ pc = "constructed"
    /\ LET r == LoadCheckpoint(FALSE, "none", ckpt, network, optimizer,
                               scheduler, start_epoch)
       IN  /\ network' = r.network
           /\ optimizer' = r.optimizer
           /\ scheduler' = r.scheduler
           /\ start_epoch' = r.start_epoch
           /\ load_outcome' = LoadOutcome(r)
           /\ events' = events \o r.events
           /\ netMode' = IF r.raised = "none" THEN "eval" ELSE netMode
           /\ pc' = IF r.raised = "none" THEN "predictor_ready" ELSE "failed"
    /\ UNCHANGED <<kind, config, ckpt, hasVal, nBatches, anchor_params, epoch,
                   best_metric, new_best, val_metrics, trackers, files, logs,
                   executed, saves, seen, logs_at_start, held, origin, runs>>
    /\ UNCHANGED <<lrVars, devVars, pipeVars, stepVars, predVars,
                   selVars>>

\* Pipeliner.get_network, lines 424-428: AbstractExecutor.__init__ again,
\* then _load_checkpoint() with train left False
GetNetwork ==
    /\ kind = "Pipeliner"
    /\ pc = "constructed"
    /\ LET r == LoadCheckpoint(FALSE, "none", ckpt, FreshNetwork, NoneVal,
                               NoneVal, 0)
       IN  /\ network' = r.network
           /\ optimizer' = r.optimizer
           /\ scheduler' = r.scheduler
           /\ start_epoch' = r.start_epoch
           /\ load_outcome' = LoadOutcome(r)
           /\ events' = events \o r.events
           /\ pc' = IF r.raised = "none" THEN "network_ready" ELSE "failed"
    /\ UNCHANGED <<kind, config, ckpt, hasVal, nBatches, netMode,
                   anchor_params, epoch, best_metric, new_best, val_metrics,
                   trackers, files, logs, executed, saves, seen,
                   logs_at_start, held, origin, runs>>
    /\ UNCHANGED <<lrVars, devVars, pipeVars, stepVars, predVars,
                   selVars>>

(***************************************************************************)
(* Trainer.run                                                             *)
(***************************************************************************)
\* variant: range(self._start_epoch, ...)
FirstEpochAtStart(se) == se

\* line 158: range(self._start_epoch + 1, self.config.epochs + 1)
FirstEpoch(se) == se + 1

InRange(e) == e <= config.epochs

\* lines 155-158: dispatch before_train_start, best_metric = -inf, enter loop
StartRun ==
    /\ kind = "Trainer"
    /\ pc = "setup_done"
    /\ events' = Append(events, "before_train_start")
    /\ best_metric' = NegInf
    /\ epoch' = FirstEpoch(start_epoch)
    /\ pc' = IF InRange(FirstEpoch(start_epoch)) THEN "train" ELSE "finish"
    /\ UNCHANGED <<kind, config, ckpt, hasVal, nBatches, network, netMode,
                   optimizer, scheduler, start_epoch, anchor_params, new_best,
                   val_metrics, trackers, files, logs, load_outcome, executed,
                   saves, seen, logs_at_start, held, origin, runs>>
    /\ UNCHANGED <<lrVars, devVars, pipeVars, stepVars, predVars,
                   selVars>>

\* EventManager.dispatch_event: a payload field as the code reads it back
\* after the dispatch, value being what the code put into the payload
PayloadAfter(event, value) == IF event \in observers THEN "observer" ELSE value

\* line 181: if self.config.is_stepwise_scheduler
AdvancesPerStep == config.is_stepwise_scheduler

\* variant: the scheduler is advanced after the batches in every case
AdvancesPerEpochAlways == TRUE

\* line 203: if not self.config.is_stepwise_scheduler
AdvancesPerEpoch == ~config.is_stepwise_scheduler

\* Trainer._training_step, lines 169-189: its operations in order
TrainingStepOps ==
    <<"to_device", "zero_grad", "forward", "before_criterion", "criterion",
      "backward", "optimizer_step">>
    \o (IF AdvancesPerStep THEN <<"scheduler_step">> ELSE <<>>)
    \o <<"before_tracker_update", "update_trackers">>

\* variant: the criterion is given the local outputs of the forward pass
LossLogitsLocal == "forward"

\* line 176: self.criterion(payload.logits, ..., *payload.extras)
LossLogits == PayloadAfter("before_criterion", "forward")

LossExtras == PayloadAfter("before_criterion", "empty")

\* lines 184-189: outputs = payload.outputs; self._update_trackers(...)
TrackedOutputs == PayloadAfter("before_tracker_update", "forward")

RECURSIVE Repeat(_, _)
Repeat(ops, n) == IF n = 0 THEN <<>> ELSE ops \o Repeat(ops, n - 1)

\* Trainer._train_epoch, lines 192-204: its operations in order
EpochOps(n) ==
    <<"network_train">>
    \o Repeat(TrainingStepOps, n)
    \o (IF AdvancesPerEpoch THEN <<"scheduler_step">> ELSE <<>>)

Count(ops, name) == Cardinality({i \in DOMAIN ops : ops[i] = name})

IsEvent(op) == op \in {"before_criterion", "before_tracker_update"}

\* variant: the epoch leaves the network in the mode it finds it in
TrainEpochModeKept(mode) == mode

\* line 192: self.network.train(), before the first batch of the epoch
TrainEpochMode(mode) == "train"

\* the scheduler steps of one epoch over n batches
SchedulerSteps(n) == Count(EpochOps(n), "scheduler_step")

\* Trainer._train_epoch: nBatches training steps, each one optimizer step
\* (and one scheduler step when step-wise); one scheduler step after the
\* batches when epoch-wise.
TrainEpoch ==
    /\ pc = "train"
    /\ netMode' = TrainEpochMode(netMode)
    /\ network' = network + Count(EpochOps(nBatches), "optimizer_step")
    /\ optimizer' = optimizer + Count(EpochOps(nBatches), "optimizer_step")
    /\ scheduler' = scheduler + SchedulerSteps(nBatches)
    /\ trackers' = trackers + Count(EpochOps(nBatches), "update_trackers")
    /\ executed' = Append(executed, epoch)
    /\ steps' = EpochOps(nBatches)
    /\ last_step' = [loss_logits |-> LossLogits, loss_extras |-> LossExtras,
                     tracked_outputs |-> TrackedOutputs]
    /\ events' = events \o SelectSeq(EpochOps(nBatches), IsEvent)
    /\ pc' = "validate"
    /\ UNCHANGED <<kind, config, ckpt, hasVal, nBatches, start_epoch,
                   anchor_params, epoch, best_metric, new_best, val_metrics,
                   files, logs, load_outcome, saves, seen,
                   logs_at_start, held, origin, runs>>
    /\ UNCHANGED <<lrVars, devVars, pipeVars, observers, sink,
                   predVars, selVars>>

\* Trainer._validation
Validation ==
    /\ pc = "validate"
    /\ IF ~hasVal
       THEN /\ val_metrics' = NoMetrics
            /\ UNCHANGED <<netMode, seen, events>>
       ELSE /\ netMode' = "eval"
            /\ \E m \in 0..MaxMetric :
                 /\ val_metrics' = m
                 /\ seen' = Append(seen, m)
            /\ events' = events \o [i \in 1..nBatches |-> "after_val_inference"]
    /\ pc' = "check_best"
    /\ UNCHANGED <<kind, config, ckpt, hasVal, nBatches, network, optimizer,
                   scheduler, start_epoch, anchor_params, epoch, best_metric,
                   new_best, trackers, files, logs, load_outcome, executed,
                   saves, logs_at_start, held, origin, runs>>
    /\ UNCHANGED <<lrVars, devVars, pipeVars, stepVars, predVars,
                   selVars>>

\* Trainer._check_best, lines 229-234
TargetMetric(vm, best) == IF vm = NoMetrics THEN best ELSE vm

\* variant: ties count as improvement
IsNewBestOrTie(vm, best) == IF vm = NoMetrics THEN TRUE ELSE vm >= best

\* variant: the empty Namespace is compared like a metric
IsNewBestCompared(vm, best) == vm > best

IsNewBest(vm, best) == IF vm = NoMetrics THEN TRUE ELSE vm > best

\* variant: the epoch before the one just trained is stored
SaveInfoStaleEpoch(e, net, opt, sch) ==
    [exists |-> TRUE, keys |-> AllKeys, epoch |-> e - 1, model |-> net,
     optimizer |-> opt, scheduler |-> sch]

\* Trainer.save
SaveInfo(e, net, opt, sch) ==
    [exists |-> TRUE, keys |-> AllKeys, epoch |-> e, model |-> net,
     optimizer |-> opt, scheduler |-> sch]

\* variant: every checkpoint goes to the file of its epoch
SuffixAlwaysEpoch(e) == e

\* variant: every checkpoint goes to the "best" file
SuffixAlwaysBest(e) == BestSuffix

\* Trainer.save, line 262

Suffix(e) == IF config.overwrite_checkpoint THEN BestSuffix ELSE e

CheckBest ==
    /\ pc = "check_best"
    /\ LET nb == IsNewBest(val_metrics, best_metric)
           tm == TargetMetric(val_metrics, best_metric)
       IN  /\ new_best' = nb
           /\ IF nb
              THEN /\ best_metric' = tm
                   /\ files' = [files EXCEPT ![Suffix(epoch)] =
                          SaveInfo(epoch, network, optimizer, scheduler)]
                   /\ held' = [held EXCEPT ![Suffix(epoch)] =
                          [valid |-> TRUE, epoch |-> epoch, model |-> network,
                           optimizer |-> optimizer, scheduler |-> scheduler]]
                   /\ saves' = Append(saves, [epoch |-> epoch, metric |-> tm])
                   /\ events' = Append(events, "before_checkpoint_save")
              ELSE UNCHANGED <<best_metric, files, held, saves, events>>
    /\ pc' = "log"
    /\ UNCHANGED <<kind, config, ckpt, hasVal, nBatches, network, netMode,
                   optimizer, scheduler, start_epoch, anchor_params, epoch,
                   val_metrics, trackers, logs, load_outcome, executed, seen,
                   logs_at_start, origin, runs>>
    /\ UNCHANGED <<lrVars, devVars, pipeVars, stepVars, predVars,
                   selVars>>

\* Trainer.log
\* variant: the marker is appended to every line
MarkerAlways(nb) == TRUE

\* line 284: message += " (New best)" if new_best else ""
Marker(nb) == nb

\* lines 272-284: the formatted message
LogMessage(e, nb) == [epoch |-> e, new_best |-> Marker(nb), text |-> "formatted"]

\* line 293: logging.info(payload.message)
SinkMessage(message) ==
    [message EXCEPT !.text = PayloadAfter("before_train_progress_log", @)]

\* line 296: f.write(message + "\n"), message being the local variable
FileLine(message) == message

Log ==
    /\ pc = "log"
    /\ logs' = Append(logs, FileLine(LogMessage(epoch, new_best)))
    /\ sink' = Append(sink, SinkMessage(LogMessage(epoch, new_best)))
    /\ events' = Append(events, "before_train_progress_log")
    /\ pc' = "reset"
    /\ UNCHANGED <<kind, config, ckpt, hasVal, nBatches, network, netMode,
                   optimizer, scheduler, start_epoch, anchor_params, epoch,
                   best_metric, new_best, val_metrics, trackers, files,
                   load_outcome, executed, saves, seen, logs_at_start, held,
                   origin, runs>>
    /\ UNCHANGED <<lrVars, devVars, pipeVars, observers, steps, last_step,
                   predVars, selVars>>

\* Trainer._reset_trackers, then the next turn of the for loop
ResetTrackers ==
    /\ pc = "reset"
    /\ trackers' = 0
    /\ epoch' = epoch + 1
    /\ pc' = IF InRange(epoch + 1) THEN "train" ELSE "finish"
    /\ UNCHANGED <<kind, config, ckpt, hasVal, nBatches, network, netMode,
                   optimizer, scheduler, start_epoch, anchor_params,
                   best_metric, new_best, val_metrics, files, logs,
                   load_outcome, events, executed, saves, seen, logs_at_start,
                   held, origin, runs>>
    /\ UNCHANGED <<lrVars, devVars, pipeVars, stepVars, predVars,
                   selVars>>

\* line 166: dispatch after_train_end
Finish ==
    /\ pc = "finish"
    /\ events' = Append(events, "after_train_end")
    /\ pc' = "done"
    /\ UNCHANGED <<kind, config, ckpt, hasVal, nBatches, network, netMode,
                   optimizer, scheduler, start_epoch, anchor_params, epoch,
                   best_metric, new_best, val_metrics, trackers, files, logs,
                   load_outcome, executed, saves, seen, logs_at_start, held,
                   origin, runs>>
    /\ UNCHANGED <<lrVars, devVars, pipeVars, stepVars, predVars,
                   selVars>>

(***************************************************************************)
(* A later Trainer, built with config.checkpoint_path pointing at one of   *)
(* the files the finished run wrote (AbstractExecutor.__init__ and         *)
(* Trainer.__init__ with the re-targeted config).                          *)
(***************************************************************************)
Resume ==
    /\ pc = "done"
    /\ runs < MaxRuns
    /\ \E s \in DOMAIN files :
        /\ files[s].exists
        /\ ckpt' = files[s]
        /\ origin' = held[s]
    /\ runs' = runs + 1
    /\ network' = FreshNetwork
    /\ netMode' = "init"
    /\ optimizer' = NoneVal
    /\ scheduler' = NoneVal
    /\ start_epoch' = 0
    /\ anchor_params' = NoneVal
    /\ pc' = "constructed"
    /\ epoch' = 0
    /\ best_metric' = NegInf
    /\ new_best' = FALSE
    /\ val_metrics' = NoMetrics
    /\ trackers' = 0
    /\ load_outcome' = "not_called"
    /\ events' = <<>>
    /\ executed' = <<>>
    /\ saves' = <<>>
    /\ seen' = <<>>
    /\ steps' = <<>>
    /\ last_step' = NoStep
    /\ UNCHANGED <<kind, config, hasVal, nBatches, files, logs, logs_at_start,
                   held>>
    /\ UNCHANGED <<lrVars, devVars, pipeVars, observers, sink,
                   predVars, selVars>>

(***************************************************************************)
(* Spec: one executor, started from any checkpoint file or none.           *)
(***************************************************************************)
Next ==
    \/ Setup
    \/ PredictorInit
    \/ GetNetwork
    \/ StartRun
    \/ TrainEpoch
    \/ Validation
    \/ CheckBest
    \/ Log
    \/ ResetTrackers
    \/ Finish

Init ==
    /\ kind \in {"Trainer", "Predictor", "Pipeliner"}
    /\ InitTrainer
    /\ IdleFinder
    /\ IdleDevice
    /\ IdlePipeliner
    /\ IdleSteps
    /\ IdlePredictor
    /\ IdleSelect
    /\ NoObservers

Spec == Init /\ [][Next]_vars

(***************************************************************************)
(* SpecResume: a Trainer started without checkpoint, followed by Trainers  *)
(* that resume from the files written before them.                         *)
(***************************************************************************)
InitResume ==
    /\ Init
    /\ kind = "Trainer"
    /\ ckpt = NoFile

NextResume ==
    \/ Setup
    \/ StartRun
    \/ TrainEpoch
    \/ Validation
    \/ CheckBest
    \/ Log
    \/ ResetTrackers
    \/ Finish
    \/ Resume

SpecResume == InitResume /\ [][NextResume]_vars

(***************************************************************************)
(* SpecObserved: a Trainer started without checkpoint, with any set of     *)
(* payload-rewriting handlers registered.                                  *)
(***************************************************************************)
ObservedEvents == {"before_criterion", "before_tracker_update",
                   "before_train_progress_log"}

InitObserved ==
    /\ kind = "Trainer"
    /\ InitTrainer
    /\ ckpt = NoFile
    /\ IdleFinder
    /\ IdleDevice
    /\ IdlePipeliner
    /\ IdleSteps
    /\ IdlePredictor
    /\ IdleSelect
    /\ observers \in SUBSET ObservedEvents

NextObserved ==
    \/ Setup
    \/ StartRun
    \/ TrainEpoch
    \/ Validation
    \/ CheckBest
    \/ Log
    \/ ResetTrackers
    \/ Finish

SpecObserved == InitObserved /\ [][NextObserved]_vars

(***************************************************************************)
(* LearningRareFinder                                                      *)
(*                                                                         *)
(* Losses are floats in the code; here they are integers and the smoothing *)
(* SMOOTHING_FACTOR * loss + (1 - SMOOTHING_FACTOR) * previous is computed *)
(* in hundredths and rounded down.                                         *)
(***************************************************************************)
MaxLoss == 30                   \* the loss of an iteration is in Losses

NUM_ITERATION == 100
DIVERGENCE_THRESHOLD == 5
SMOOTHING_FACTOR_PERCENT == 5   \* SMOOTHING_FACTOR = 0.05

Losses == {1, MaxLoss}

\* track_best_loss: the value it returns
SmoothedLoss(it, loss, last) ==
    IF it = 0 THEN loss
    ELSE (SMOOTHING_FACTOR_PERCENT * loss
          + (100 - SMOOTHING_FACTOR_PERCENT) * last) \div 100

\* track_best_loss: self.best_loss after the call
TrackedBest(it, loss, last, best) ==
    IF it = 0 THEN loss
    ELSE IF SmoothedLoss(it, loss, last) < best
         THEN SmoothedLoss(it, loss, last) ELSE best

\* variant: the raw threshold is compared, not the multiple of the best loss
DivergesAbsolute(smoothed, best) == smoothed > DIVERGENCE_THRESHOLD

\* line 497: if smoothed_loss > self.DIVERGENCE_THRESHOLD * self.best_loss
Diverges(smoothed, best) == smoothed > DIVERGENCE_THRESHOLD * best

\* lines 471-475: next(self._iterator), restarting the iterator at the end
NextBatch(pos) == IF pos = nBatches THEN 1 ELSE pos + 1

InitFinder ==
    /\ kind = "LearningRareFinder"
    /\ InitTrainer
    /\ config.epochs = 0
    /\ ~config.overwrite_checkpoint
    /\ ~config.is_stepwise_scheduler
    /\ ~hasVal
    /\ ckpt \in {NoFile, [exists |-> TRUE, keys |-> AllKeys, epoch |-> 1,
                          model |-> 11, optimizer |-> 21, scheduler |-> 31]}
    /\ IdleFinder
    /\ IdleDevice
    /\ IdlePipeliner
    /\ IdleSteps
    /\ IdlePredictor
    /\ IdleSelect
    /\ NoObservers

\* run, lines 459-470: history and best_loss are reset, the learning rate is
\* set to START_LR, before_train_start is dispatched, the loop is entered
FinderStart ==
    /\ kind = "LearningRareFinder"
    /\ pc = "setup_done"
    /\ history_len' = 0
    /\ history_last' = 0
    /\ best_loss' = NoneVal
    /\ diverged_at' = NoneVal
    /\ iteration' = 0
    /\ it_pos' = 0
    /\ events' = Append(events, "before_train_start")
    /\ pc' = "lr_loop"
    /\ UNCHANGED <<kind, config, ckpt, hasVal, nBatches, network, netMode,
                   optimizer, scheduler, start_epoch, anchor_params, epoch,
                   best_metric, new_best, val_metrics, trackers, files, logs,
                   load_outcome, executed, saves, seen, logs_at_start, held,
                   origin, runs>>
    /\ UNCHANGED <<devVars, pipeVars, stepVars, predVars,
                   selVars>>

\* one turn of the loop, lines 470-498
FinderIterate ==
    /\ pc = "lr_loop"
    /\ \E loss \in Losses :
        LET smoothed == SmoothedLoss(iteration, loss, history_last)
            best == TrackedBest(iteration, loss, history_last, best_loss)
        IN  /\ best_loss' = best
            /\ history_last' = smoothed
            /\ diverged_at' =
                   IF diverged_at = NoneVal
                      /\ smoothed > DIVERGENCE_THRESHOLD * best
                   THEN iteration ELSE diverged_at
            /\ pc' = IF Diverges(smoothed, best) THEN "lr_after"
                     ELSE IF iteration + 1 < NUM_ITERATION THEN "lr_loop"
                     ELSE "lr_after"
    /\ it_pos' = NextBatch(it_pos)
    /\ history_len' = history_len + 1
    /\ iteration' = iteration + 1
    /\ trackers' = trackers + 1
    /\ events' = Append(events, "before_criterion")
    /\ network' = network + 1
    /\ optimizer' = optimizer + 1
    /\ scheduler' = scheduler + 1
    /\ UNCHANGED <<kind, config, ckpt, hasVal, nBatches, netMode, start_epoch,
                   anchor_params, epoch, best_metric, new_best, val_metrics,
                   files, logs, load_outcome, executed, saves, seen,
                   logs_at_start, held, origin, runs>>
    /\ UNCHANGED <<devVars, pipeVars, stepVars, predVars,
                   selVars>>

\* lines 500-506: the plot is drawn, then plt.savefig raises NameError (the
\* module never imports plt), so history.json is not written
FinderFinish ==
    /\ pc = "lr_after"
    /\ pc' = "lr_raised"
    /\ UNCHANGED <<kind, config, ckpt, hasVal, nBatches, network, netMode,
                   optimizer, scheduler, start_epoch, anchor_params, epoch,
                   best_metric, new_best, val_metrics, trackers, files, logs,
                   load_outcome, events, executed, saves, seen, logs_at_start,
                   held, origin, runs>>
    /\ UNCHANGED <<lrVars, devVars, pipeVars, stepVars, predVars,
                   selVars>>

NextFinder ==
    \/ Setup
    \/ FinderStart
    \/ FinderIterate
    \/ FinderFinish

SpecFinder == InitFinder /\ [][NextFinder]_vars

(***************************************************************************)
(* AbstractExecutor._to_device                                             *)
(*                                                                         *)
(* A value of a batch is a record [kind, dev, items]: a tensor or a        *)
(* torch_geometric Data on device dev, a list or a mapping of items (a     *)
(* mapping's keys are the positions of its items, in insertion order), or  *)
(* any other object (an int, a string).                                    *)
(***************************************************************************)
MaxEntries == 2     \* entries of batch.inputs: 1..MaxEntries
MaxLen == 2         \* items of a list (0..MaxLen) or of a mapping (1..MaxLen)

Tensor(d) == [kind |-> "tensor", dev |-> d, items |-> <<>>]
GraphData(d) == [kind |-> "data", dev |-> d, items |-> <<>>]
Other == [kind |-> "other", dev |-> "none", items |-> <<>>]
ListOf(xs) == [kind |-> "list", dev |-> "none", items |-> xs]
DictOf(xs) == [kind |-> "dict", dev |-> "none", items |-> xs]

SeqsOf(S, lo, hi) == UNION {[1..n -> S] : n \in lo..hi}

Leaves == {Tensor("cpu"), GraphData("cpu"), Other}

Lists == {ListOf(xs) : xs \in SeqsOf(Leaves, 0, MaxLen)}

InnerValues ==
    Leaves \cup {ListOf(<<Tensor("cpu")>>)}
           \cup {DictOf(xs) : xs \in SeqsOf(Leaves, 1, MaxLen)}

Dicts == {DictOf(xs) : xs \in SeqsOf(InnerValues, 1, MaxLen)}

EntryValues == Leaves \cup Lists \cup Dicts

Batches == [outputs : {Tensor("cpu")},
            inputs : SeqsOf(EntryValues, 1, MaxEntries)]

\* x.to(self._device)
To(v, d) == [v EXCEPT !.dev = d]

\* isinstance(x, torch.Tensor)
IsTensor(v) == v.kind = "tensor"

\* isinstance(x, torch.Tensor) or issubclass(type(x), Data)
IsTensorOrData(v) == v.kind \in {"tensor", "data"}

\* type(v): a class object
TypeOf(v) == [kind |-> "type", dev |-> v.kind, items |-> <<>>]

\* line 68: type(v) is dict. Inside dict_to_device the name dict is the
\* parameter, the mapping being copied, not the builtin class.
TypeIs(v, dict) == TypeOf(v) = dict

RECURSIVE dict_to_device(_, _)
dict_to_device(dict, d) ==
    DictOf([k \in DOMAIN dict.items |->
              LET v == dict.items[k]
              IN  IF TypeIs(v, dict) THEN dict_to_device(v, d)
                  ELSE IF IsTensorOrData(v) THEN To(v, d)
                  ELSE v])

\* lines 61-63: except (AttributeError, ValueError)
Caught(exc) == exc \in {"AttributeError", "ValueError"}

\* lines 50-60: the value stored for one entry, or the exception raised
MoveEntry(values, d) ==
    IF IsTensorOrData(values)
    THEN [value |-> To(values, d), exc |-> "none"]
    ELSE IF values.kind = "dict"
    THEN [value |-> dict_to_device(values, d), exc |-> "none"]
    ELSE IF values.kind = "list"
    THEN IF values.items = <<>>
         THEN [value |-> values, exc |-> "IndexError"]
         ELSE IF IsTensor(values.items[1])
         THEN IF \A i \in DOMAIN values.items :
                     IsTensorOrData(values.items[i])
              THEN [value |-> ListOf([i \in DOMAIN values.items |->
                                          To(values.items[i], d)]),
                    exc |-> "none"]
              ELSE [value |-> values, exc |-> "AttributeError"]
         ELSE [value |-> values, exc |-> "none"]
    ELSE [value |-> values, exc |-> "none"]

\* lines 48-63: the loop over batch.inputs from entry i on; an exception
\* that is not caught ends it
RECURSIVE MoveEntries(_, _, _)
MoveEntries(inputs, i, d) ==
    IF i > Len(inputs) THEN [inputs |-> inputs, raised |-> FALSE]
    ELSE LET r == MoveEntry(inputs[i], d)
         IN  IF r.exc = "none" \/ Caught(r.exc)
             THEN MoveEntries([inputs EXCEPT ![i] = r.value], i + 1, d)
             ELSE [inputs |-> inputs, raised |-> TRUE]

InitDevice ==
    /\ kind = "Trainer"
    /\ InitTrainer
    /\ config.epochs = 0
    /\ ~config.is_finetuning
    /\ ~config.overwrite_checkpoint
    /\ ~config.is_stepwise_scheduler
    /\ ~hasVal
    /\ nBatches = 1
    /\ ckpt = NoFile
    /\ IdleFinder
    /\ IdlePipeliner
    /\ IdleSteps
    /\ IdlePredictor
    /\ IdleSelect
    /\ NoObservers
    /\ device \in {"cpu", "cuda"}
    /\ batch \in Batches
    /\ batch_in = batch
    /\ dev_pc = "ready"

ToDevice ==
    /\ dev_pc = "ready"
    /\ LET r == MoveEntries(batch.inputs, 1, device)
       IN  /\ batch' = [outputs |-> To(batch.outputs, device),
                        inputs |-> r.inputs]
           /\ dev_pc' = IF r.raised THEN "raised" ELSE "returned"
    /\ UNCHANGED <<device, batch_in>>
    /\ UNCHANGED <<trainerVars, lrVars, pipeVars, stepVars, predVars,
                   selVars>>

NextDevice == ToDevice

SpecDevice == InitDevice /\ [][NextDevice]_vars

(***************************************************************************)
(* Pipeliner.find_all_checkpoints                                          *)
(***************************************************************************)
MaxCalls == 2       \* calls of find_all_checkpoints on the same directory

CheckpointPaths == {"out/checkpoint.1.pt", "out/checkpoint.2.pt",
                    "out/checkpoint.3.pt", "out/checkpoint.10.pt",
                    "out/checkpoint.best.pt"}

\* Path.rglob("*.pt"): the files in the order the directory scan yields them
ScanOrders(S) ==
    {xs \in [1..Cardinality(S) -> S] :
        \A i, j \in DOMAIN xs : i # j => xs[i] # xs[j]}

\* sorted(xs, key=len): a stable sort, equal keys keep their input order
RECURSIVE InsertByLen(_, _)
InsertByLen(sorted, x) ==
    IF sorted = <<>> THEN <<x>>
    ELSE IF Len(x) < Len(sorted[Len(sorted)])
         THEN Append(InsertByLen(SubSeq(sorted, 1, Len(sorted) - 1), x),
                     sorted[Len(sorted)])
         ELSE Append(sorted, x)

RECURSIVE SortedByLen(_)
SortedByLen(xs) ==
    IF xs = <<>> THEN <<>>
    ELSE InsertByLen(SortedByLen(SubSeq(xs, 1, Len(xs) - 1)), xs[Len(xs)])

InitPipeliner ==
    /\ kind = "Pipeliner"
    /\ InitTrainer
    /\ config.epochs = 0
    /\ ~config.is_finetuning
    /\ ~config.overwrite_checkpoint
    /\ ~config.is_stepwise_scheduler
    /\ ~hasVal
    /\ nBatches = 1
    /\ ckpt = NoFile
    /\ IdleFinder
    /\ IdleDevice
    /\ IdleSteps
    /\ IdlePredictor
    /\ IdleSelect
    /\ NoObservers
    /\ out_files \in SUBSET CheckpointPaths
    /\ found = <<>>

find_all_checkpoints ==
    /\ kind = "Pipeliner"
    /\ Len(found) < MaxCalls
    /\ \E scan \in ScanOrders(out_files) :
         found' = Append(found, SortedByLen(scan))
    /\ UNCHANGED out_files
    /\ UNCHANGED <<trainerVars, lrVars, devVars, stepVars, predVars,
                   selVars>>

NextPipeliner == find_all_checkpoints

SpecPipeliner == InitPipeliner /\ [][NextPipeliner]_vars

(***************************************************************************)
(* SpecPredictor: a Predictor is constructed and runs one batch.           *)
(***************************************************************************)
PredictorConfigs == [probe_layer : BOOLEAN, ensemble : BOOLEAN,
                     parallel : BOOLEAN, mc_dropout : BOOLEAN]

\* AbstractExecutor._setup_network, lines 99-105: the class of self.network
SetupNetwork(c) ==
    IF c.parallel THEN "CustomDataParallel"
    ELSE IF c.ensemble THEN "EnsembleNetwork"
    ELSE "Network"

\* CustomDataParallel wraps any network and is no subclass of EnsembleNetwork
WrapperIsEnsemble == FALSE

\* line 312: isinstance(self.network, EnsembleNetwork)
IsEnsemble(cls) ==
    \/ cls = "EnsembleNetwork"
    \/ (cls = "CustomDataParallel" /\ WrapperIsEnsemble)

\* lines 329-337
Inference(c) == IF c.mc_dropout THEN "mc_dropout" ELSE "forward"

InitPredictor ==
    /\ kind = "Predictor"
    /\ InitTrainer
    /\ config.epochs = 0
    /\ ~config.is_finetuning
    /\ ~config.overwrite_checkpoint
    /\ ~config.is_stepwise_scheduler
    /\ ~hasVal
    /\ nBatches = 1
    /\ IdleFinder
    /\ IdleDevice
    /\ IdlePipeliner
    /\ IdleSteps
    /\ IdleSelect
    /\ NoObservers
    /\ pconf \in PredictorConfigs
    /\ net_class = SetupNetwork(pconf)
    /\ probe = "none"

\* Predictor.run, lines 321-348
PredictorRun ==
    /\ kind = "Predictor"
    /\ pc = "predictor_ready"
    /\ IF pconf.probe_layer /\ IsEnsemble(net_class)
       THEN /\ steps' = <<"to_device", "set_hook_probe">>
            /\ pc' = "run_failed"
            /\ UNCHANGED <<probe, events>>
       ELSE /\ steps' = <<"to_device">>
                        \o (IF pconf.probe_layer
                            THEN <<"set_hook_probe">> ELSE <<>>)
                        \o <<"before_predict", Inference(pconf),
                             "after_predict">>
            /\ probe' = IF pconf.probe_layer THEN "hook" ELSE probe
            /\ events' = events \o <<"before_predict", "after_predict">>
            /\ pc' = "predicted"
    /\ UNCHANGED <<kind, config, ckpt, hasVal, nBatches, network, netMode,
                   optimizer, scheduler, start_epoch, anchor_params, epoch,
                   best_metric, new_best, val_metrics, trackers, files, logs,
                   load_outcome, executed, saves, seen, logs_at_start, held,
                   origin, runs>>
    /\ UNCHANGED <<observers, last_step, sink, pconf, net_class>>
    /\ UNCHANGED <<lrVars, devVars, pipeVars, selVars>>

NextPredictor ==
    \/ PredictorInit
    \/ PredictorRun

SpecPredictor == InitPredictor /\ [][NextPredictor]_vars

(***************************************************************************)
(* SpecSelect: Pipeliner.evaluate_all and Pipeliner.find_best_checkpoint   *)
(* over the checkpoint files of an output directory.                       *)
(***************************************************************************)
MaxTargets == 2

Targets == 1..MaxTargets

Scores == {0, 1}

SelectPaths == {"out/checkpoint.1.pt", "out/checkpoint.2.pt",
                "out/checkpoint.10.pt"}

\* the lists find_all_checkpoints can return for the files S
Discoveries(S) == {SortedByLen(scan) : scan \in ScanOrders(S)}

\* lines 399-403: Evaluator(config).run with config.checkpoint_path = path
Evaluate(path) == [path |-> path, values |-> metrics[path]]

\* lines 397-406, paths being what find_all_checkpoints returned
EvaluateAll(paths) == [i \in DOMAIN paths |-> Evaluate(paths[i])]

\* variant: the path is assigned on the Pipeliner's own config
AfterEvaluationsShared(own, paths) ==
    IF paths = <<>> THEN own ELSE paths[Len(paths)]

\* lines 400-401: config = copy(self.config); config.checkpoint_path = ...
\* The Pipeliner's own checkpoint_path after the loop over paths
AfterEvaluations(own, paths) == own

\* np.argmax: the index of the first maximum (indices count from 1 here)
ArgMax(v) ==
    CHOOSE i \in DOMAIN v :
        /\ \A j \in DOMAIN v : v[j] <= v[i]
        /\ \A j \in 1..(i - 1) : v[j] < v[i]

\* Namespace.reduce applies the operation to the results' values, attribute
\* by attribute; it cannot read the attributes of an empty list
NamespaceReduceRaises(rs) == rs = <<>>

\* lines 415-416: np.argmax(axis=0) of the target metric, one index per target
PerTargetBest(rs) ==
    [t \in Targets |-> ArgMax([i \in DOMAIN rs |-> rs[i].values[t]])]

\* np.bincount: how often each index occurs
BinCount(v, n) == [i \in 1..n |-> Cardinality({t \in DOMAIN v : v[t] = i})]

\* line 420: np.argmax(np.bincount(per_target_best))
BestIndex(rs) == ArgMax(BinCount(PerTargetBest(rs), Len(rs)))

InitSelect ==
    /\ kind = "Pipeliner"
    /\ InitTrainer
    /\ config.epochs = 0
    /\ ~config.is_finetuning
    /\ ~config.overwrite_checkpoint
    /\ ~config.is_stepwise_scheduler
    /\ ~hasVal
    /\ nBatches = 1
    /\ ckpt = NoFile
    /\ IdleFinder
    /\ IdleDevice
    /\ IdleSteps
    /\ IdlePredictor
    /\ NoObservers
    /\ out_files \in SUBSET SelectPaths
    /\ found = <<>>
    /\ metrics \in [out_files -> [Targets -> Scores]]
    /\ results = <<>>
    /\ checkpoint_path = "none"
    /\ predictor_path = "none"

\* Pipeliner.evaluate_all, called on its own
evaluate_all ==
    /\ kind = "Pipeliner"
    /\ pc = "constructed"
    /\ \E paths \in Discoveries(out_files) :
         /\ found' = Append(found, paths)
         /\ results' = EvaluateAll(paths)
         /\ checkpoint_path' = AfterEvaluations(checkpoint_path, paths)
    /\ pc' = "evaluated"
    /\ UNCHANGED <<kind, config, ckpt, hasVal, nBatches, network, netMode,
                   optimizer, scheduler, start_epoch, anchor_params, epoch,
                   best_metric, new_best, val_metrics, trackers, files, logs,
                   load_outcome, events, executed, saves, seen, logs_at_start,
                   held, origin, runs>>
    /\ UNCHANGED <<out_files, metrics, predictor_path>>
    /\ UNCHANGED <<lrVars, devVars, stepVars, predVars>>

\* Pipeliner.find_best_checkpoint: evaluate_all with its scan (line 414),
\* the vote (415-416), the second scan (418), the choice (420) and
\* initialize_predictor (421)
find_best_checkpoint ==
    /\ kind = "Pipeliner"
    /\ pc = "constructed"
    /\ \E first, all_checkpoints \in Discoveries(out_files) :
         LET rs == EvaluateAll(first)
         IN  /\ results' = rs
             /\ IF NamespaceReduceRaises(rs)
                THEN /\ found' = Append(found, first)
                     /\ pc' = "failed"
                     /\ checkpoint_path' =
                            AfterEvaluations(checkpoint_path, first)
                     /\ UNCHANGED predictor_path
                ELSE /\ found' = found \o <<first, all_checkpoints>>
                     /\ checkpoint_path' = all_checkpoints[BestIndex(rs)]
                     /\ predictor_path' = all_checkpoints[BestIndex(rs)]
                     /\ pc' = "selected"
    /\ UNCHANGED <<kind, config, ckpt, hasVal, nBatches, network, netMode,
                   optimizer, scheduler, start_epoch, anchor_params, epoch,
                   best_metric, new_best, val_metrics, trackers, files, logs,
                   load_outcome, events, executed, saves, seen, logs_at_start,
                   held, origin, runs>>
    /\ UNCHANGED <<out_files, metrics>>
    /\ UNCHANGED <<lrVars, devVars, stepVars, predVars>>

NextSelect ==
    \/ evaluate_all
    \/ find_best_checkpoint

SpecSelect == InitSelect /\ [][NextSelect]_vars

(***************************************************************************)
(* Properties of Trainer.run and _load_checkpoint                          *)
(***************************************************************************)
RunPcs == {"train", "validate", "check_best", "log", "reset", "finish", "done"}

PostLoad == pc \in {"setup_done", "failed", "predictor_ready", "network_ready"}

\* value of the optimizer / scheduler right before _load_checkpoint is called
PreLoad(fresh) == IF kind = "Trainer" THEN fresh ELSE NoneVal

IsPrefix(s, t) == Len(s) <= Len(t) /\ \A i \in 1..Len(s) : s[i] = t[i]

EpochsFrom(a, b) == [i \in 1..(IF b >= a THEN b - a + 1 ELSE 0) |-> a + i - 1]

SavedIn(e) == {i \in 1..Len(saves) : saves[i].epoch = e}

\* C1: in a run with a validation loader the saved checkpoints' target
\* metrics never decrease, and an epoch saves exactly when its metric is
\* strictly greater than every metric seen earlier in the run (a tie saves
\* nothing).
C1_BestIsMonotonic ==
    (kind = "Trainer" /\ hasVal) =>
        /\ \A i, j \in 1..Len(saves) :
               i < j => saves[j].metric >= saves[i].metric
        /\ pc \in {"log", "reset"} =>
               LET n == Len(seen)
                   improved == \A k \in 1..(n - 1) : seen[n] > seen[k]
               IN  /\ new_best = improved
                   /\ (SavedIn(epoch) # {}) = improved
                   /\ Cardinality(SavedIn(epoch)) <= 1

C1_Witness ==
    /\ kind = "Trainer" /\ hasVal
    /\ pc = "log"
    /\ Len(saves) = 2
    /\ Len(seen) = 3
    /\ seen[3] = seen[2]
    /\ ~new_best

\* C2: without a validation loader every executed epoch is a new best and
\* is saved exactly once, whatever the start epoch and the number of epochs.
C2_NoValSavesEveryEpoch ==
    (kind = "Trainer" /\ ~hasVal) =>
        /\ \A i \in 1..Len(saves) :
               i <= Len(executed) /\ saves[i].epoch = executed[i]
        /\ pc \in {"log", "reset"} => new_best
        /\ pc \in {"log", "reset", "train", "finish", "done"} =>
               Len(saves) = Len(executed)

C2_Witness ==
    /\ kind = "Trainer" /\ ~hasVal
    /\ pc = "done"
    /\ start_epoch >= 1
    /\ Len(executed) >= 2
    /\ Len(saves) = Len(executed)

AllRestored ==
    /\ ckpt.exists
    /\ AllKeys \subseteq ckpt.keys
    /\ optimizer = ckpt.optimizer
    /\ scheduler = ckpt.scheduler
    /\ start_epoch = ckpt.epoch

NoneChanged ==
    /\ optimizer = PreLoad(FreshOptimizer)
    /\ scheduler = PreLoad(FreshScheduler)
    /\ start_epoch = 0

C4_RoundTrip ==
    (/\ origin.valid
     /\ pc = "setup_done"
     /\ load_outcome = "returned"
     /\ ~config.is_finetuning) =>
        /\ network = origin.model
        /\ optimizer = origin.optimizer
        /\ scheduler = origin.scheduler
        /\ start_epoch = origin.epoch

C4_Witness ==
    /\ origin.valid
    /\ pc = "setup_done"
    /\ load_outcome = "returned"
    /\ ~config.is_finetuning
    /\ origin.epoch >= 2
    /\ origin.scheduler # origin.optimizer
    /\ start_epoch = origin.epoch
    /\ network = origin.model

\* The epochs a run has to execute when it resumes after epoch r.
RunsEpochsAfter(r) ==
    LET plan == EpochsFrom(r + 1, config.epochs)
    IN  /\ IsPrefix(executed, plan)
        /\ pc \in {"finish", "done"} => executed = plan
        /\ pc = "done" =>
               /\ events # <<>>
               /\ events[Len(events)] = "after_train_end"
        /\ (r >= config.epochs) =>
               /\ executed = <<>>
               /\ saves = <<>>
               /\ Len(logs) = logs_at_start

\* C5 as stated: run executes exactly the epochs resumeEpoch+1..totalEpochs,
\* once each and in increasing order, resumeEpoch being the epoch stored in
\* the loaded checkpoint (0 when none was loaded); when resumeEpoch >=
\* totalEpochs nothing is trained, saved or logged and after_train_end is
\* still dispatched.
C5_RunsFromStoredEpoch ==
    (kind = "Trainer" /\ pc \in RunPcs) =>
        RunsEpochsAfter(IF load_outcome = "returned" /\ "epoch" \in ckpt.keys
                        THEN ckpt.epoch ELSE 0)

\* C5 as amended: the same, resumeEpoch being the epoch stored in the
\* loaded checkpoint when the config is not in fine-tuning mode, and 0 when
\* no checkpoint was loaded, the file holds no epoch, or the config is in
\* fine-tuning mode.
C5_RunsFromRestoredEpoch ==
    (kind = "Trainer" /\ pc \in RunPcs) =>
        RunsEpochsAfter(IF /\ load_outcome = "returned"
                           /\ ~config.is_finetuning
                           /\ "epoch" \in ckpt.keys
                        THEN ckpt.epoch ELSE 0)

C5_Witness ==
    /\ kind = "Trainer"
    /\ pc = "done"
    /\ load_outcome = "returned"
    /\ ~config.is_finetuning
    /\ ckpt.epoch = 1
    /\ executed = <<2, 3>>

\* C6: when the load in Trainer setup fails with CheckpointNotFound the run
\* does not fail, the start epoch stays 0, the freshly built optimizer and
\* scheduler are kept, and training proceeds from epoch 1.
C6_CheckpointNotFoundIsRecoverable ==
    (kind = "Trainer" /\ load_outcome = "CheckpointNotFound") =>
        /\ pc # "failed"
        /\ start_epoch = 0
        /\ pc = "setup_done" =>
               /\ optimizer = FreshOptimizer
               /\ scheduler = FreshScheduler
        /\ (pc \in RunPcs /\ config.epochs >= 1) =>
               IF executed = <<>> THEN pc = "train" /\ epoch = 1
               ELSE executed[1] = 1

C6_Witness ==
    /\ kind = "Trainer"
    /\ load_outcome = "CheckpointNotFound"
    /\ pc = "validate"
    /\ executed = <<1>>
    /\ optimizer = FreshOptimizer + nBatches

(***************************************************************************)
(* Properties of LearningRareFinder.run                                    *)
(***************************************************************************)
FinderHalted == pc \in {"lr_after", "lr_raised"}

\* C7 as stated: the finder halts after at most NUM_ITERATION iterations,
\* and it halts strictly before using the whole budget if and only if at
\* some iteration the smoothed loss exceeded DIVERGENCE_THRESHOLD times the
\* best smoothed loss recorded so far.
C7_EarlyHaltIffDiverged ==
    /\ iteration <= NUM_ITERATION
    /\ pc = "lr_loop" => iteration < NUM_ITERATION
    /\ FinderHalted =>
           ((iteration < NUM_ITERATION) <=> (diverged_at # NoneVal))

\* C7 as amended: the finder leaves its loop after at most NUM_ITERATION
\* iterations, right after the first iteration whose smoothed loss exceeds
\* DIVERGENCE_THRESHOLD times the best smoothed loss; it leaves it strictly
\* before using the whole budget if and only if that iteration is not the
\* last one of the budget.
C7_EarlyHaltIffDivergedBeforeLast ==
    /\ iteration <= NUM_ITERATION
    /\ pc = "lr_loop" => (iteration < NUM_ITERATION /\ diverged_at = NoneVal)
    /\ FinderHalted =>
           /\ (iteration < NUM_ITERATION) <=>
                  (diverged_at # NoneVal /\ diverged_at < NUM_ITERATION - 1)
           /\ diverged_at # NoneVal => iteration = diverged_at + 1
           /\ diverged_at = NoneVal => iteration = NUM_ITERATION

C7_Witness ==
    /\ pc = "lr_after"
    /\ diverged_at # NoneVal
    /\ diverged_at > 1
    /\ iteration = diverged_at + 1
    /\ iteration < NUM_ITERATION
    /\ history_last > DIVERGENCE_THRESHOLD * best_loss

(***************************************************************************)
(* Properties of _to_device                                                *)
(***************************************************************************)
\* r is what the value o has to become: every tensor in it, at any depth of
\* lists and mappings, on device d, every other object untouched
RECURSIVE MovedAsClaimed(_, _, _)
MovedAsClaimed(r, o, d) ==
    IF o.kind = "tensor" THEN r = To(o, d)
    ELSE IF o.kind = "data" THEN r = o \/ r = To(o, d)
    ELSE IF o.kind = "other" THEN r = o
    ELSE /\ r.kind = o.kind
         /\ Len(r.items) = Len(o.items)
         /\ \A i \in DOMAIN o.items :
                MovedAsClaimed(r.items[i], o.items[i], d)

\* C8: after _to_device returns, the output tensor and every tensor-valued
\* input, also inside nested mappings at any depth and inside lists, is on
\* the configured device, and every non-tensor field has its original value.
C8_AllTensorsOnDevice ==
    dev_pc = "returned" =>
        /\ batch.outputs = To(batch_in.outputs, device)
        /\ Len(batch.inputs) = Len(batch_in.inputs)
        /\ \A i \in DOMAIN batch_in.inputs :
               MovedAsClaimed(batch.inputs[i], batch_in.inputs[i], device)

\* an entry whose value cannot be moved: a non-tensor object, a list that
\* mixes tensors with other objects, an empty list
CannotBeMoved(v) ==
    \/ v.kind = "other"
    \/ /\ v.kind = "list"
       /\ \/ v.items = <<>>
          \/ /\ \E i \in DOMAIN v.items : IsTensor(v.items[i])
             /\ \E i \in DOMAIN v.items : ~IsTensorOrData(v.items[i])

\* C9: for an entry whose value cannot be moved _to_device raises no error,
\* leaves the entry at its original value and goes on to process the
\* remaining entries.
C9_UnmovableEntriesAreSkipped ==
    (dev_pc \in {"returned", "raised"}
     /\ \E i \in DOMAIN batch_in.inputs : CannotBeMoved(batch_in.inputs[i])) =>
        /\ dev_pc = "returned"
        /\ \A i \in DOMAIN batch_in.inputs :
               /\ CannotBeMoved(batch_in.inputs[i]) =>
                      batch.inputs[i] = batch_in.inputs[i]
               /\ IsTensor(batch_in.inputs[i]) =>
                      batch.inputs[i] = To(batch_in.inputs[i], device)

(***************************************************************************)
(* Properties of Pipeliner.find_all_checkpoints                            *)
(***************************************************************************)
\* C10: for a fixed set of checkpoint files every call of
\* find_all_checkpoints returns the same sequence of paths, whatever order
\* the directory scan yields them in, also when paths have the same length.
C10_DiscoveryIsDeterministic ==
    \A i, j \in DOMAIN found : found[i] = found[j]

(***************************************************************************)
(* Properties of the files and log lines a run leaves behind               *)
(***************************************************************************)
Written == {s \in DOMAIN files : files[s].exists}

\* the epochs of the lines the run appended to logs.txt
RunLines == [i \in 1..(Len(logs) - logs_at_start) |-> logs[logs_at_start + i]]

LineEpochs == [i \in DOMAIN RunLines |-> RunLines[i].epoch]

\* C12: without validation loader and with overwrite_checkpoint false, a
\* finished run that executed the epochs s+1..E has written exactly the
\* files checkpoint.<e>.pt for e in s+1..E, each once and each holding its
\* own epoch, and has appended exactly E-s lines to logs.txt, one per epoch
\* in epoch order.
C12_OneFileAndLinePerEpoch ==
    (/\ kind = "Trainer"
     /\ ~hasVal
     /\ ~config.overwrite_checkpoint
     /\ pc = "done"
     /\ start_epoch <= config.epochs) =>
        /\ executed = EpochsFrom(start_epoch + 1, config.epochs)
        /\ Written = (start_epoch + 1)..config.epochs
        /\ \A e \in Written :
               /\ files[e].epoch = e
               /\ Cardinality(SavedIn(e)) = 1
        /\ Len(saves) = config.epochs - start_epoch
        /\ Len(logs) - logs_at_start = config.epochs - start_epoch
        /\ LineEpochs = EpochsFrom(start_epoch + 1, config.epochs)

C12_Witness ==
    /\ kind = "Trainer"
    /\ ~hasVal
    /\ ~config.overwrite_checkpoint
    /\ pc = "done"
    /\ config.epochs = 2
    /\ start_epoch = 0
    /\ Written = {1, 2}
    /\ Len(logs) = 2

(***************************************************************************)
(* Properties of the Pipeliner's checkpoint selection                      *)
(***************************************************************************)
\* the path that wins the vote when the checkpoints are taken in the order
\* paths and each is given the metrics evaluated from its own file
VoteWinner(paths) == paths[BestIndex(EvaluateAll(paths))]

\* C11: after find_best_checkpoint, config.checkpoint_path is the path of
\* the checkpoint with the highest target metric in the largest number of
\* targets (ties to the lowest index of a list find_all_checkpoints gave
\* during the call), each checkpoint being given the metrics evaluated from
\* its own file, and the predictor has been re-created from that path.
C11_SelectsVoteWinner ==
    (kind = "Pipeliner" /\ pc = "selected") =>
        /\ \E i \in DOMAIN found : checkpoint_path = VoteWinner(found[i])
        /\ predictor_path = checkpoint_path

\* C22: evaluate_all returns exactly one result per discovered checkpoint,
\* the i-th computed from the i-th discovered checkpoint file, and leaves
\* the Pipeliner's own config.checkpoint_path as it was.
C22_OneResultPerCheckpoint ==
    (kind = "Pipeliner" /\ pc = "evaluated") =>
        LET discovered == found[Len(found)]
        IN  /\ Len(results) = Len(discovered)
            /\ Len(results) = Cardinality(out_files)
            /\ {discovered[i] : i \in DOMAIN discovered} = out_files
            /\ \A i \in DOMAIN results :
                   /\ results[i].path = discovered[i]
                   /\ results[i].values = metrics[discovered[i]]
            /\ checkpoint_path = "none"
            /\ predictor_path = "none"

C22_Witness ==
    /\ kind = "Pipeliner"
    /\ pc = "evaluated"
    /\ Len(results) = 3
    /\ results[1].path = "out/checkpoint.2.pt"
    /\ results[1].values # results[2].values
    /\ checkpoint_path = "none"

(***************************************************************************)
(* Properties of Predictor.run                                             *)
(***************************************************************************)
Performed(op) == \E i \in DOMAIN steps : steps[i] = op

\* C13: when a probe layer is configured and the network is an ensemble,
\* wrapped for parallel execution or not, Predictor.run fails, and it does
\* so before before_predict is dispatched, before any forward pass and
\* before after_predict.
C13_ProbedEnsembleFails ==
    (/\ kind = "Predictor"
     /\ pc \in {"predicted", "run_failed"}
     /\ pconf.probe_layer
     /\ pconf.ensemble) =>
        /\ pc = "run_failed"
        /\ ~Performed("before_predict")
        /\ ~Performed("forward")
        /\ ~Performed("mc_dropout")
        /\ ~Performed("after_predict")

\* C14: a checkpoint load changes optimizer state, scheduler state and
\* start epoch only for train = True outside fine-tuning mode; the load of
\* a Predictor, of Pipeliner.get_network and of a fine-tuning Trainer
\* restores the network weights only and leaves the three unchanged, so a
\* fine-tuning run starts at epoch 1.
C14_OnlyTrainingLoadRestores ==
    LET restoring == kind = "Trainer" /\ ~config.is_finetuning
    IN  /\ (PostLoad /\ ~restoring) =>
               /\ optimizer = PreLoad(FreshOptimizer)
               /\ scheduler = PreLoad(FreshScheduler)
               /\ start_epoch = 0
               /\ load_outcome \in {"returned", "CheckpointNotFound"}
               /\ network = IF load_outcome = "returned"
                            THEN NetworkLoad(ckpt) ELSE FreshNetwork
        /\ (kind = "Trainer" /\ config.is_finetuning /\ pc \in RunPcs) =>
               /\ start_epoch = 0
               /\ executed # <<>> => executed[1] = 1
               /\ (pc = "done" /\ config.epochs >= 1) => executed # <<>>

C14_Witness ==
    /\ kind = "Trainer"
    /\ config.is_finetuning
    /\ load_outcome = "returned"
    /\ ckpt.keys = AllKeys
    /\ ckpt.epoch >= 2
    /\ pc = "done"
    /\ executed # <<>>
    /\ executed[1] = 1
    /\ network # NetworkLoad(ckpt)

\* the values a run starts from, after _setup
Restoring == kind = "Trainer" /\ ~config.is_finetuning /\ load_outcome = "returned"

StartNetwork == IF load_outcome = "returned" THEN NetworkLoad(ckpt) ELSE FreshNetwork

StartOptimizer ==
    IF Restoring /\ "optimizer" \in ckpt.keys THEN ckpt.optimizer ELSE FreshOptimizer

StartScheduler ==
    IF Restoring /\ "scheduler" \in ckpt.keys THEN ckpt.scheduler ELSE FreshScheduler

\* index, among the epochs of the run, of the earliest one whose metric is
\* the maximum seen in the run
EarliestBest ==
    CHOOSE k \in DOMAIN seen :
        /\ \A j \in DOMAIN seen : seen[j] <= seen[k]
        /\ \A j \in 1..(k - 1) : seen[j] < seen[k]

\* C15: with overwrite_checkpoint true and a validation loader a run writes
\* only checkpoint.best.pt, and when the run has ended that file holds the
\* epoch index and the model, optimizer and scheduler state of the end of
\* the earliest epoch that reached the maximum target metric of the run.
C15_BestFileHoldsEarliestBest ==
    (/\ kind = "Trainer"
     /\ hasVal
     /\ config.overwrite_checkpoint
     /\ pc = "done") =>
        /\ Written \subseteq {BestSuffix}
        /\ Len(seen) = Len(executed)
        /\ executed = <<>> => Written = {}
        /\ executed # <<>> =>
               LET k == EarliestBest
                   f == files[BestSuffix]
               IN  /\ f.exists
                   /\ f.epoch = executed[k]
                   /\ f.model = StartNetwork + k * nBatches
                   /\ f.optimizer = StartOptimizer + k * nBatches
                   /\ f.scheduler = StartScheduler +
                          k * (IF config.is_stepwise_scheduler
                               THEN nBatches ELSE 1)

C15_Witness ==
    /\ kind = "Trainer"
    /\ hasVal
    /\ config.overwrite_checkpoint
    /\ pc = "done"
    /\ seen = <<1, 2, 2>>
    /\ Written = {BestSuffix}
    /\ files[BestSuffix].epoch = executed[2]

(***************************************************************************)
(* Properties of the training step and the epoch around it                 *)
(***************************************************************************)
\* a training step that begins with the operations first and second and
\* goes on as the step is described
StepBeginning(first, second) ==
    <<first, second, "forward", "before_criterion", "criterion", "backward",
      "optimizer_step">>
    \o (IF config.is_stepwise_scheduler THEN <<"scheduler_step">> ELSE <<>>)
    \o <<"before_tracker_update", "update_trackers">>

\* the operations of the b-th training step of the last epoch, each step
\* performing n operations
StepOf(b, n) == SubSeq(steps, 2 + (b - 1) * n, 1 + b * n)

StepsAre(step) ==
    /\ Len(steps) >= 1 + nBatches * Len(step)
    /\ \A b \in 1..nBatches : StepOf(b, Len(step)) = step

ReadsPayloadAfterDispatch ==
    /\ last_step.loss_logits =
           IF "before_criterion" \in observers THEN "observer" ELSE "forward"
    /\ last_step.loss_extras =
           IF "before_criterion" \in observers THEN "observer" ELSE "empty"
    /\ last_step.tracked_outputs =
           IF "before_tracker_update" \in observers
           THEN "observer" ELSE "forward"

\* C16 as stated: each training step zeroes the gradients, moves the batch
\* to the device, runs the forward pass, dispatches before_criterion,
\* computes the loss from the payload's logits and extras as they are after
\* the dispatch, runs the backward pass, steps the optimizer, advances a
\* step-wise scheduler, dispatches before_tracker_update and updates the
\* trackers from the payload's outputs as they are after that dispatch.
C16_StepOrderZeroFirst ==
    (kind = "Trainer" /\ steps # <<>>) =>
        /\ StepsAre(StepBeginning("zero_grad", "to_device"))
        /\ ReadsPayloadAfterDispatch

\* C16 as amended: each training step moves the batch to the device, then
\* zeroes the gradients, and goes on as stated: forward pass,
\* before_criterion, loss from the payload's logits and extras as they are
\* after the dispatch, backward pass, optimizer step, step-wise scheduler
\* advance, before_tracker_update, trackers updated from the payload's
\* outputs as they are after that dispatch.
C16_StepOrderMoveFirst ==
    (kind = "Trainer" /\ steps # <<>>) =>
        /\ StepsAre(StepBeginning("to_device", "zero_grad"))
        /\ ReadsPayloadAfterDispatch

C16_Witness ==
    /\ kind = "Trainer"
    /\ nBatches = 2
    /\ config.is_stepwise_scheduler
    /\ observers = {"before_criterion", "before_tracker_update"}
    /\ Len(steps) = 21
    /\ StepOf(2, 10)[1] = "to_device"
    /\ StepOf(2, 10)[2] = "zero_grad"
    /\ last_step.loss_logits = "observer"
    /\ last_step.tracked_outputs = "observer"

\* positions in the last epoch's operations where the scheduler is advanced
SchedulerAdvances == {i \in DOMAIN steps : steps[i] = "scheduler_step"}

OptimizerSteps == {i \in DOMAIN steps : steps[i] = "optimizer_step"}

LastTrainingOp ==
    CHOOSE i \in DOMAIN steps :
        /\ steps[i] = "update_trackers"
        /\ \A j \in DOMAIN steps : steps[j] = "update_trackers" => j <= i

\* C17: in an epoch over n batches the scheduler is advanced per step or per
\* epoch, never both: a step-wise scheduler exactly n times, each right
\* after an optimizer step (so once per step); an epoch-wise scheduler
\* exactly once, after the last batch's training step and before validation.
C17_SchedulerPerStepOrPerEpoch ==
    (kind = "Trainer" /\ steps # <<>>) =>
        /\ Cardinality(OptimizerSteps) = nBatches
        /\ IF config.is_stepwise_scheduler
           THEN /\ Cardinality(SchedulerAdvances) = nBatches
                /\ SchedulerAdvances = {i + 1 : i \in OptimizerSteps}
           ELSE /\ Cardinality(SchedulerAdvances) = 1
                /\ SchedulerAdvances = {Len(steps)}
                /\ LastTrainingOp = Len(steps) - 1
        /\ pc = "validate" =>
               scheduler = StartScheduler +
                       Len(executed) * (IF config.is_stepwise_scheduler
                                        THEN nBatches ELSE 1)

C17_Witness ==
    /\ kind = "Trainer"
    /\ pc = "validate"
    /\ ~config.is_stepwise_scheduler
    /\ nBatches = 2
    /\ Len(executed) = 2
    /\ SchedulerAdvances = {Len(steps)}
    /\ scheduler = StartScheduler + 2

(***************************************************************************)
(* Properties of Trainer.log and Trainer._setup                            *)
(***************************************************************************)
\* C18: for every epoch the line appended to logs.txt is the message sent
\* to the logging sink, which is the payload message as it is after the
\* before_train_progress_log dispatch: a message rewritten by an observer
\* reaches both.
C18_FileLineIsSinkMessage ==
    kind = "Trainer" =>
        /\ Len(sink) = Len(RunLines)
        /\ \A i \in DOMAIN RunLines :
               /\ RunLines[i] = sink[i]
               /\ sink[i].text =
                      IF "before_train_progress_log" \in observers
                      THEN "observer" ELSE "formatted"

\* C19: when before_train_start is dispatched the snapshot anchor_params
\* exists and equals the parameters training starts from, after a loaded
\* checkpoint and after a load that failed with CheckpointNotFound.
C19_SnapshotAlwaysTaken ==
    (/\ kind = "Trainer"
     /\ pc \in RunPcs
     /\ executed = <<>>
     /\ events # <<>>
     /\ events[Len(events)] = "before_train_start") =>
        /\ anchor_params # NoneVal
        /\ anchor_params = network

\* C20: in every epoch of a run the logged line carries the "(New best)"
\* marker exactly when a checkpoint was saved in that epoch, and the save
\* has happened when the line is logged.
C20_MarkerIffSaved ==
    kind = "Trainer" =>
        /\ \A i \in DOMAIN RunLines :
               RunLines[i].new_best = (SavedIn(RunLines[i].epoch) # {})
        /\ \A i \in DOMAIN saves :
               \/ \E j \in DOMAIN RunLines : RunLines[j].epoch = saves[i].epoch
               \/ (pc = "log" /\ saves[i].epoch = epoch /\ i = Len(saves))
        /\ pc = "log" => \A i \in DOMAIN RunLines : RunLines[i].epoch < epoch

C20_Witness ==
    /\ kind = "Trainer"
    /\ hasVal
    /\ pc = "reset"
    /\ Len(RunLines) = 3
    /\ RunLines[2].new_best
    /\ ~RunLines[3].new_best
    /\ SavedIn(RunLines[2].epoch) # {}
    /\ SavedIn(RunLines[3].epoch) = {}

(***************************************************************************)
(* Properties of the network mode                                          *)
(***************************************************************************)
\* C21: the training steps of every epoch run with the network in train
\* mode and the validation forward passes of every epoch with the network
\* in eval mode, also in the epochs that follow a validation pass.
C21_TrainsInTrainModeValidatesInEvalMode ==
    kind = "Trainer" =>
        /\ pc = "validate" =>
               /\ steps # <<>>
               /\ steps[1] = "network_train"
               /\ netMode = "train"
        /\ (pc = "check_best" /\ hasVal) => netMode = "eval"

C21_Witness ==
    /\ kind = "Trainer"
    /\ hasVal
    /\ pc = "validate"
    /\ Len(executed) = 2
    /\ Len(seen) = 1
    /\ netMode = "train"

====
